---------------------------- MODULE Spec2Model ----------------------------
(***************************************************************************)
(* TrendLoop USA: the master scheduler loop (master_agent.py) and the      *)
(* post queue of the batch publisher (batch_publisher.py).                 *)
(*                                                                         *)
(* Time is the wall clock in whole seconds since the first start of the    *)
(* daemon.  An ISO-8601 timestamp written by now_iso() and read back by    *)
(* seconds_since() is modelled by the second it denotes; a missing key of  *)
(* the state dictionary by NONE.                                           *)
(***************************************************************************)
EXTENDS Integers, Sequences, FiniteSets, TLC

\* ------------------------------------------------------------------------
\* Program constants
\* ------------------------------------------------------------------------
CONTENT_INTERVAL == 21600
SEO_INTERVAL == 3600
SOCIAL_INTERVAL == 43200
HEARTBEAT_INTERVAL == 300
\* the sleep between two ticks: 60 rounds of time.sleep(1)
TICK_SECONDS == 60
\* str(e)[:100]
STATUS_MSG_MAX == 100
\* seconds of one calendar day (strftime("%Y-%m-%d") of the UTC clock)
DAY_SECONDS == 86400
\* state.get(key) of a key that is not in the dictionary
NONE == -1
\* float("inf")
INF == 999999999
\* a recorded timestamp datetime.fromisoformat cannot parse
BAD == -2

\* ------------------------------------------------------------------------
\* Bounds of the model
\* ------------------------------------------------------------------------
\* ticks of one process
MaxCycle == 2
\* restarts of the daemon
MaxRestarts == 1
\* exceptions leaving a task and failed saves of the state file in one
\* run of the scheduler
MaxFaults == 2

\* ------------------------------------------------------------------------
\* Small helpers
\* ------------------------------------------------------------------------
Min(a, b) == IF a < b THEN a ELSE b

\* an exception message of n characters (the characters are numbered so
\* that a prefix is recognisable)
Msg(n) == [i \in 1..n |-> i]

\* the messages a failing task may carry: exactly at the limit of the
\* status string, and one character past it
ExcMessages == {Msg(STATUS_MSG_MAX), Msg(STATUS_MSG_MAX + 1)}

TaskNames == {"content", "seo", "social", "heartbeat"}

VARIABLES
    now,        \* the wall clock, seconds
    pc,         \* position of main(): loop, content, seo, social,
                \* heartbeat, sleep, stopped, dead
    running,    \* the global flag cleared by signal_handler
    state,      \* the in-memory schedule state dictionary
    stateFile,  \* STATE_FILE on disk
    cycle,      \* the local counter of main()
    pid,        \* number of the daemon process (restarts so far)
    hist,       \* the eligibility checks of the current tick
    faults,     \* task exceptions and failed state saves so far
    queueFile,  \* QUEUE_INDEX on disk
    docs,       \* the slugs that have an HTML file in DOCS_DIR
    lastOp,     \* the last run of batch_generate / publish_todays_posts
    tracker,    \* safety.tracker, the process-wide UsageTracker
    trackLog,   \* the last tracker operation, and the log_error calls
                \* since the last log_api_call
    opc,        \* position of the one-shot orchestrator (main.py, main)
    exitStatus, \* its exit status, NONE while it has not exited
    keywords,   \* what fetch_trending_keywords gave: "none", "empty", "some"
    blog,       \* what generate_blog_post gave: "none", "empty", "article"
    consecutive_step_errors,   \* the local counter of main.py main()
    steps,      \* the pipeline steps started, in order
    alarmAt,    \* the clock at which the armed deadline fires, or NONE
    genLog,     \* the last batch_generate run: the generator's response,
                \* the topics, the count and the HTML files written
    pubMem,     \* the queue a publish_todays_posts run in flight holds in
                \* memory, between its json.load and its json.dump
    genMem,     \* the queue_index a batch_generate run in flight holds
    lastWrite,  \* the last write of QUEUE_INDEX: the writer, the index it
                \* started from and the index it replaced
    _gemini_call_count,   \* the module counter of agents/writer.py
    contacts,   \* the calls of client.models.generate_content made by
                \* the writer agent in this process
    refused     \* the _call_gemini calls of the last generate_blog_post
                \* that _check_gemini_limit turned down

schedVars == <<pc, running, state, stateFile, cycle, pid, hist, faults>>

queueVars == <<queueFile, docs, lastOp>>

trackVars == <<tracker, trackLog>>

orchVars ==
    <<opc, exitStatus, keywords, blog, consecutive_step_errors, steps,
      alarmAt>>

oneShotVars == <<trackVars, orchVars>>

genVars == <<genLog>>

raceVars == <<pubMem, genMem, lastWrite>>

writerVars == <<_gemini_call_count, contacts, refused>>

lateVars == <<genVars, raceVars, writerVars>>

vars == <<now, pc, running, state, stateFile, cycle, pid, hist, faults,
          queueFile, docs, lastOp, tracker, trackLog, opc, exitStatus,
          keywords, blog, consecutive_step_errors, steps, alarmAt,
          genLog, pubMem, genMem, lastWrite, _gemini_call_count, contacts,
          refused>>

\* ------------------------------------------------------------------------
\* Schedule state
\* ------------------------------------------------------------------------
StatusNone == [kind |-> "none", text |-> <<>>]
StatusOk == [kind |-> "ok", text |-> <<>>]
\* f"error: {str(e)[:100]}"
Truncate(msg) == SubSeq(msg, 1, Min(Len(msg), STATUS_MSG_MAX))
StatusError(msg) == [kind |-> "error", text |-> Truncate(msg)]

\* the empty dictionary {}
EmptyState ==
    [last_content |-> NONE, last_content_status |-> StatusNone,
     last_seo |-> NONE, last_seo_status |-> StatusNone,
     last_social |-> NONE, last_social_status |-> StatusNone,
     last_heartbeat |-> NONE, cycles |-> NONE]

AbsentFile == [kind |-> "absent", data |-> EmptyState]
CorruptFile == [kind |-> "corrupt", data |-> EmptyState]
GoodFile(st) == [kind |-> "ok", data |-> st]

\* a start that does not read the state file
load_stateIgnoresFile(file) == EmptyState

\* load_state(): the file's dictionary, {} when the file is absent or does
\* not parse
load_state(file) == IF file.kind = "ok" THEN file.data ELSE EmptyState

\* save_state(state): the outcome is "ok" (the file holds the state),
\* "error" (open() raised, the exception is logged, the file is as before)
\* or "torn" (open(.., "w") truncated the file and the dump did not finish)
SaveOutcomes == {"ok", "error", "torn"}
save_state(st, file, outcome) ==
    CASE outcome = "ok" -> GoodFile(st)
      [] outcome = "error" -> file
      [] OTHER -> CorruptFile

\* a seconds_since that takes a timestamp it cannot parse for the
\* current time
seconds_sinceUnparsedIsNow(ts, t) ==
    IF ts = NONE THEN INF ELSE IF ts = BAD THEN 0 ELSE t - ts

\* seconds_since(iso_str) read at clock t: infinite without a timestamp
\* and after the except clause
seconds_since(ts, t) ==
    IF ts = NONE THEN INF ELSE IF ts = BAD THEN INF ELSE t - ts

LastKey(task) ==
    CASE task = "content" -> "last_content"
      [] task = "seo" -> "last_seo"
      [] task = "social" -> "last_social"
      [] OTHER -> "last_heartbeat"

StatusKey(task) ==
    CASE task = "content" -> "last_content_status"
      [] task = "seo" -> "last_seo_status"
      [] OTHER -> "last_social_status"

Interval(task) ==
    CASE task = "content" -> CONTENT_INTERVAL
      [] task = "seo" -> SEO_INTERVAL
      [] task = "social" -> SOCIAL_INTERVAL
      [] OTHER -> HEARTBEAT_INTERVAL

\* ------------------------------------------------------------------------
\* The post queue (batch_publisher.py)
\* ------------------------------------------------------------------------
POSTS_PER_DAY == 10
DAYS_AHEAD == 7
TOTAL_POSTS == POSTS_PER_DAY * DAYS_AHEAD
\* a generated body shorter than this is skipped
BODY_MIN == 500
\* the slug base is cut to this many characters
SLUG_MAX == 60

\* topics of one generator response
MaxTopics == 2
\* the largest "day" field a topic carries
MaxDayField == 2
\* calendar days the queue model runs through
MaxDay == 1

\* the calendar date (a day number) the clock t falls on
Today(t) == t \div DAY_SECONDS

\* characters of a title: letters in both cases, and characters that are
\* neither letters nor digits
Lower(c) ==
    CASE c = "A" -> "a"
      [] c = "B" -> "b"
      [] OTHER -> c

IsSlugChar(c) == c \in {"a", "b"}

RECURSIVE DropNonSlug(_)
DropNonSlug(s) ==
    IF s = <<>> THEN <<>>
    ELSE IF IsSlugChar(Head(s)) THEN s
    ELSE DropNonSlug(Tail(s))

\* re.sub(r"[^a-z0-9]+", "-", s)
RECURSIVE Collapse(_)
Collapse(s) ==
    IF s = <<>> THEN <<>>
    ELSE IF IsSlugChar(Head(s)) THEN <<Head(s)>> \o Collapse(Tail(s))
    ELSE <<"-">> \o Collapse(DropNonSlug(Tail(s)))

\* .strip("-")
RECURSIVE StripLeft(_)
StripLeft(s) ==
    IF s = <<>> THEN <<>>
    ELSE IF Head(s) = "-" THEN StripLeft(Tail(s))
    ELSE s

RECURSIVE StripRight(_)
StripRight(s) ==
    IF s = <<>> THEN <<>>
    ELSE IF s[Len(s)] = "-" THEN StripRight(SubSeq(s, 1, Len(s) - 1))
    ELSE s

\* re.sub(r"[^a-z0-9]+", "-", title.lower()).strip("-")[:60]
SlugBase(title) ==
    LET lowered == [i \in 1..Len(title) |-> Lower(title[i])]
        stripped == StripRight(StripLeft(Collapse(lowered)))
    IN SubSeq(stripped, 1, Min(Len(stripped), SLUG_MAX))

\* f"{pub_date}-{slug_base}"
Slug(pub_date, title) == <<pub_date, SlugBase(title)>>

\* titles: two that normalise to the same slug base, and another one
Titles == {<<"a">>, <<"A", "!">>, <<"b">>}

\* a topic of the generator's response, with the length of the body
\* generate_single_post will return for it (NONE: the call failed); day is
\* NONE when the topic has no "day" key
Topic(title, day, body) == [title |-> title, day |-> day, body |-> body]

Topics ==
    {Topic(t, 1, BODY_MIN) : t \in Titles} \cup
    {Topic(<<"a">>, d, BODY_MIN) : d \in 1..MaxDayField} \cup
    {Topic(<<"b">>, NONE, BODY_MIN),
     Topic(<<"b">>, 1, BODY_MIN - 1),
     Topic(<<"a">>, 1, NONE)}

RECURSIVE SeqsUpTo(_, _)
SeqsUpTo(S, n) ==
    IF n = 0 THEN {<<>>}
    ELSE LET shorter == SeqsUpTo(S, n - 1)
         IN shorter \cup {Append(q, x) : q \in shorter, x \in S}

TopicLists == SeqsUpTo(Topics, MaxTopics)

AbsentQueue == [kind |-> "absent", entries |-> <<>>]
MalformedQueue == [kind |-> "malformed", entries |-> <<>>]
GoodQueue(entries) == [kind |-> "ok", entries |-> entries]

\* a write of the queue index: "ok", "error" (open() raised, the file is
\* as before) or "torn" (truncated by open(.., "w"), the dump unfinished)
WriteOutcomes == {"ok", "error", "torn"}

WriteQueue(entries, file, outcome) ==
    CASE outcome = "ok" -> GoodQueue(entries)
      [] outcome = "error" -> file
      [] OTHER -> MalformedQueue

\* the record of the last run: which operation, a bit that flips at every
\* run, whether an exception left it, what it returned, the slugs it
\* copied to DOCS_DIR in order, the rebuilds it triggered, and the files
\* it did not find
NoOp == [op |-> "none", tog |-> FALSE, raised |-> FALSE, ret |-> 0,
         copied |-> <<>>, rebuilds |-> 0, missing |-> {}]

\* ------------------------------------------------------------------------
\* publish_todays_posts
\* ------------------------------------------------------------------------
\* the positions of the queue entries dated today and not yet published,
\* in queue order
RECURSIVE DueFrom(_, _, _)
DueFrom(queue, today, i) ==
    IF i > Len(queue) THEN <<>>
    ELSE IF queue[i].pub_date = today /\ ~queue[i].published
         THEN <<i>> \o DueFrom(queue, today, i + 1)
         ELSE DueFrom(queue, today, i + 1)

\* a filter on the date alone, blind to the published flag
RECURSIVE DatedFrom(_, _, _)
DatedFrom(queue, today, i) ==
    IF i > Len(queue) THEN <<>>
    ELSE IF queue[i].pub_date = today
         THEN <<i>> \o DatedFrom(queue, today, i + 1)
         ELSE DatedFrom(queue, today, i + 1)

todays_postsIgnoresFlag(queue, today) == DatedFrom(queue, today, 1)

\* a filter that catches up: unpublished entries dated today or earlier
RECURSIVE DueUpTo(_, _, _)
DueUpTo(queue, today, i) ==
    IF i > Len(queue) THEN <<>>
    ELSE IF queue[i].pub_date <= today /\ ~queue[i].published
         THEN <<i>> \o DueUpTo(queue, today, i + 1)
         ELSE DueUpTo(queue, today, i + 1)

todays_postsCatchesUp(queue, today) == DueUpTo(queue, today, 1)

todays_posts(queue, today) == DueFrom(queue, today, 1)

\* the loop over todays_posts.  missing: the files of QUEUE_DIR that
\* os.path.exists does not find at this run (the directory is under the
\* operator's hands too).  failAt = k > 0: the k-th copy raises (reading
\* src or writing dst) and the exception leaves the function.
RECURSIVE PublishLoop(_, _, _, _, _, _)
PublishLoop(queue, idxs, missing, dd, copied, failAt) ==
    IF idxs = <<>>
    THEN [queue |-> queue, docs |-> dd, copied |-> copied, raised |-> FALSE]
    ELSE LET post == queue[Head(idxs)]
         IN IF post.file \in missing
            THEN PublishLoop(queue, Tail(idxs), missing, dd, copied, failAt)
            ELSE IF failAt = Len(copied) + 1
            THEN [queue |-> queue, docs |-> dd, copied |-> copied,
                  raised |-> TRUE]
            ELSE PublishLoop([queue EXCEPT ![Head(idxs)].published = TRUE],
                             Tail(idxs), missing, dd \cup {post.slug},
                             Append(copied, post.slug), failAt)

\* what a run that changes nothing reports
Untouched(qf, dd, raised) ==
    [queueFile |-> qf, docs |-> dd, raised |-> raised, ret |-> 0,
     copied |-> <<>>, rebuilds |-> 0]

\* a publisher that rebuilds at every run
RebuildsAlways(published) == 1

\* if published > 0: the sitemap, index and RSS rebuild
Rebuilds(published) == IF published > 0 THEN 1 ELSE 0

\* publish_todays_posts() run at date today: the new queue index, the new
\* live directory and what the run did
publish_todays_posts(qf, missing, dd, today, failAt, wr) ==
    IF qf.kind = "absent" THEN Untouched(qf, dd, FALSE)
    ELSE IF qf.kind = "malformed" THEN Untouched(qf, dd, TRUE)
    ELSE IF todays_posts(qf.entries, today) = <<>>
    THEN Untouched(qf, dd, FALSE)
    ELSE LET r == PublishLoop(qf.entries, todays_posts(qf.entries, today),
                              missing, dd, <<>>, failAt)
         IN IF r.raised
            THEN [queueFile |-> qf, docs |-> r.docs, raised |-> TRUE,
                  ret |-> 0, copied |-> r.copied, rebuilds |-> 0]
            ELSE IF wr # "ok"
            THEN [queueFile |-> WriteQueue(r.queue, qf, wr), docs |-> r.docs,
                  raised |-> TRUE, ret |-> 0, copied |-> r.copied,
                  rebuilds |-> 0]
            ELSE [queueFile |-> GoodQueue(r.queue), docs |-> r.docs,
                  raised |-> FALSE, ret |-> Len(r.copied),
                  copied |-> r.copied,
                  rebuilds |-> Rebuilds(Len(r.copied))]

PublishOp(r, prev, missing) ==
    [op |-> "publish", tog |-> ~prev.tog, raised |-> r.raised, ret |-> r.ret,
     copied |-> r.copied, rebuilds |-> r.rebuilds, missing |-> missing]

\* ------------------------------------------------------------------------
\* batch_generate
\* ------------------------------------------------------------------------
\* what the Gemini call of generate_weekly_topics gives: the call raises;
\* a text without a bracketed part; a bracketed part json.loads rejects
\* (topics: the items legible in it); a JSON array of topics
Responses ==
    {[kind |-> "fails", topics |-> <<>>],
     [kind |-> "no array", topics |-> <<>>]} \cup
    {[kind |-> "invalid", topics |-> tl] : tl \in SeqsUpTo(Topics, 1)} \cup
    {[kind |-> "array", topics |-> tl] : tl \in TopicLists}

\* a parser that keeps what it can read of a bracketed text
generate_weekly_topicsLenient(resp) == resp.topics

\* generate_weekly_topics(): the parsed array, [] after the except clause
\* and when re.search finds nothing
generate_weekly_topics(resp) ==
    IF resp.kind = "array" THEN resp.topics ELSE <<>>

\* a loop that leaves at the first failed or short body (break)
RECURSIVE GenerateLoopStops(_, _, _, _)
GenerateLoopStops(topics, i, today, entries) ==
    IF i > Len(topics) THEN entries
    ELSE LET topic == topics[i]
             day == IF topic.day = NONE
                    THEN ((i - 1) \div POSTS_PER_DAY) + 1
                    ELSE topic.day
             pub_date == today + (day - 1)
             slug == Slug(pub_date, topic.title)
         IN IF topic.body = NONE \/ topic.body < BODY_MIN
            THEN entries
            ELSE GenerateLoopStops(topics, i + 1, today,
                     Append(entries,
                            [slug |-> slug, title |-> topic.title,
                             pub_date |-> pub_date, file |-> slug,
                             published |-> FALSE]))

\* the loop over the topics: the entries appended (each after its HTML
\* file is written to QUEUE_DIR)
RECURSIVE GenerateLoop(_, _, _, _)
GenerateLoop(topics, i, today, entries) ==
    IF i > Len(topics) THEN entries
    ELSE LET topic == topics[i]
             day == IF topic.day = NONE
                    THEN ((i - 1) \div POSTS_PER_DAY) + 1
                    ELSE topic.day
             pub_date == today + (day - 1)
             slug == Slug(pub_date, topic.title)
         IN IF topic.body = NONE \/ topic.body < BODY_MIN
            THEN GenerateLoop(topics, i + 1, today, entries)
            ELSE GenerateLoop(topics, i + 1, today,
                     Append(entries,
                            [slug |-> slug, title |-> topic.title,
                             pub_date |-> pub_date, file |-> slug,
                             published |-> FALSE]))

\* the queue index batch_generate writes: queue_index = [] and the new
\* entries
NewIndex(old, entries) == entries

\* the HTML files the loop wrote to QUEUE_DIR, one open(post_file, "w")
\* for each entry, in order
FilesWritten(entries) == [i \in 1..Len(entries) |-> entries[i].file]

\* batch_generate(count) run at date today on the generator's topics
batch_generate(topics, count, qf, today, wr) ==
    IF topics = <<>>
    THEN [queueFile |-> qf, raised |-> FALSE, ret |-> 0, written |-> <<>>]
    ELSE LET entries ==
                 GenerateLoop(SubSeq(topics, 1, Min(Len(topics), count)),
                              1, today, <<>>)
         IN [queueFile |-> WriteQueue(NewIndex(qf.entries, entries), qf, wr),
             raised |-> wr # "ok",
             ret |-> IF wr = "ok" THEN Len(entries) ELSE 0,
             written |-> FilesWritten(entries)]

GenerateOp(r, prev) ==
    [op |-> "generate", tog |-> ~prev.tog, raised |-> r.raised,
     ret |-> r.ret, copied |-> <<>>, rebuilds |-> 0, missing |-> {}]

\* ------------------------------------------------------------------------
\* The master scheduler loop (master_agent.py, main)
\* ------------------------------------------------------------------------
\* how long a called task runs, seconds: the timestamp now_iso() writes
\* after the call is later than the clock the eligibility check read
TaskDurations == {1}

\* the time from the end of one tick to the start of the next: the 60
\* one-second sleeps, or longer when the host delays the process; the
\* longer values put the heartbeat just before, at and just after its
\* interval
Delays ==
    {TICK_SECONDS, HEARTBEAT_INTERVAL - 1, HEARTBEAT_INTERVAL,
     HEARTBEAT_INTERVAL + 1}

\* the downtime before a restart: just before and just after the SEO
\* interval, just after the content and the social interval
Downtimes ==
    {SEO_INTERVAL - 1, SEO_INTERVAL + 1, CONTENT_INTERVAL + 1,
     SOCIAL_INTERVAL + 1}

\* how a call of a task function ends: it returns, or an exception with a
\* message leaves it
Returned == [raised |-> FALSE, msg |-> <<>>]
Raised(m) == [raised |-> TRUE, msg |-> m]
TaskOutcomes == {Returned} \cup {Raised(m) : m \in ExcMessages}

\* the record of the current tick: the latest eligibility check (task, the
\* clock and the elapsed time it read, whether the task was called, how
\* the call ended, whether a step inside it failed and was swallowed) and
\* the tasks checked, found due, called and failed so far in the tick
NoHist ==
    [task |-> "none", at |-> NONE, elapsed |-> NONE, invoked |-> FALSE,
     raised |-> FALSE, msg |-> <<>>, swallowed |-> FALSE,
     checked |-> {}, due |-> {}, attempted |-> {}, failed |-> {}]

Checked(h, task, t, elapsed, invoked, out, sw) ==
    [task |-> task, at |-> t, elapsed |-> elapsed, invoked |-> invoked,
     raised |-> out.raised, msg |-> out.msg, swallowed |-> sw,
     checked |-> h.checked \cup {task},
     due |-> IF elapsed >= Interval(task) THEN h.due \cup {task} ELSE h.due,
     attempted |-> IF invoked THEN h.attempted \cup {task} ELSE h.attempted,
     failed |-> IF out.raised THEN h.failed \cup {task} ELSE h.failed]

\* a loop that compares with > instead of >=
IsDueStrict(elapsed, interval) == elapsed > interval

\* elapsed >= INTERVAL
IsDue(elapsed, interval) == elapsed >= interval

\* a loop that stamps the task after the try/except, whatever the outcome
AfterTaskAlwaysStamps(st, task, out, t) ==
    IF out.raised
    THEN [st EXCEPT ![LastKey(task)] = t,
                    ![StatusKey(task)] = StatusError(out.msg)]
    ELSE [st EXCEPT ![LastKey(task)] = t, ![StatusKey(task)] = StatusOk]

\* the try/except around a task call of content, SEO and social: the
\* state after the call ended with out at clock t
AfterTask(st, task, out, t) ==
    IF out.raised
    THEN [st EXCEPT ![StatusKey(task)] = StatusError(out.msg)]
    ELSE [st EXCEPT ![LastKey(task)] = t, ![StatusKey(task)] = StatusOk]

\* a heartbeat branch that records the cycle count and not the time
AfterHeartbeatKeepsStamp(st, t, c) == [st EXCEPT !.cycles = c]

\* the heartbeat branch: no try/except, the timestamp and the cycle count
AfterHeartbeat(st, t, c) ==
    [st EXCEPT !.last_heartbeat = t, !.cycles = c]

\* the faults a step draws: an exception leaving the task, a failed save
Cost(out, sv) ==
    (IF out.raised THEN 1 ELSE 0) + (IF sv # "ok" THEN 1 ELSE 0)

\* a loop without the inner try/except: the exception reaches the outer
\* handler, which ends the tick
NextPcAbortOnRaise(task, out) ==
    IF out.raised THEN "sleep"
    ELSE CASE task = "content" -> "seo"
           [] task = "seo" -> "social"
           [] task = "social" -> "heartbeat"
           [] OTHER -> "sleep"

\* where main() goes after the branch of a task
NextPc(task, out) ==
    CASE task = "content" -> "seo"
      [] task = "seo" -> "social"
      [] task = "social" -> "heartbeat"
      [] OTHER -> "sleep"

\* a loop that does not look at the flag
WhileConditionIgnoresFlag(r) == TRUE

\* while running:
WhileCondition(r) == r

\* the loop starts a tick, or leaves and saves the state
LoopHead ==
    /\ pc = "loop"
    /\ IF WhileCondition(running)
       THEN /\ cycle < MaxCycle
            /\ cycle' = cycle + 1
            /\ hist' = NoHist
            /\ pc' = "content"
            /\ UNCHANGED <<now, running, state, stateFile, pid, faults>>
       ELSE /\ \E sv \in SaveOutcomes :
                 /\ faults + Cost(Returned, sv) <= MaxFaults
                 /\ faults' = faults + Cost(Returned, sv)
                 /\ stateFile' = save_state(state, stateFile, sv)
            /\ pc' = "stopped"
            /\ UNCHANGED <<now, running, state, cycle, pid, hist>>
    /\ UNCHANGED queueVars
    /\ UNCHANGED oneShotVars
    /\ UNCHANGED lateVars

\* task_content_generation(): publish_todays_posts and the other steps run
\* inside their own try/except (swallowed); an exception leaves the task
\* only from a statement outside them, before (early) or after the steps.
\* Here the publisher fails on an unreadable queue index; the faults of its
\* file copies and of its index write are explored under QueueSpec.
ContentStep ==
    /\ pc = "content"
    /\ LET elapsed == seconds_since(state.last_content, now)
       IN IF IsDue(elapsed, CONTENT_INTERVAL)
          THEN \E dur \in TaskDurations, out \in TaskOutcomes,
                  early \in BOOLEAN, stepFails \in BOOLEAN,
                  sv \in SaveOutcomes :
               LET ran == ~(out.raised /\ early)
                   r == publish_todays_posts(queueFile, {}, docs,
                                             Today(now), 0, "ok")
               IN /\ (~out.raised => ~early)
                  /\ faults + Cost(out, sv) <= MaxFaults
                  /\ faults' = faults + Cost(out, sv)
                  /\ IF ran
                     THEN /\ queueFile' = r.queueFile
                          /\ docs' = r.docs
                          /\ lastOp' = PublishOp(r, lastOp, {})
                     ELSE UNCHANGED <<queueFile, docs, lastOp>>
                  /\ now' = now + dur
                  /\ state' = AfterTask(state, "content", out, now + dur)
                  /\ stateFile' = save_state(state', stateFile, sv)
                  /\ hist' = Checked(hist, "content", now, elapsed, TRUE, out,
                                   ran /\ (r.raised \/ stepFails))
                  /\ pc' = NextPc("content", out)
          ELSE /\ hist' = Checked(hist, "content", now, elapsed, FALSE,
                                Returned, FALSE)
               /\ pc' = NextPc("content", Returned)
               /\ UNCHANGED <<now, state, stateFile, faults, queueFile, docs,
                               lastOp>>
    /\ UNCHANGED <<running, cycle, pid>>
    /\ UNCHANGED oneShotVars
    /\ UNCHANGED lateVars

\* the SEO and the social branch: the task's steps run inside their own
\* try/except (swallowed), an exception leaves the task only from a
\* statement outside them
TaskStep(task) ==
    /\ pc = task
    /\ LET elapsed == seconds_since(state[LastKey(task)], now)
       IN IF IsDue(elapsed, Interval(task))
          THEN \E dur \in TaskDurations, out \in TaskOutcomes,
                  stepFails \in BOOLEAN, sv \in SaveOutcomes :
               /\ (out.raised => ~stepFails)
               /\ faults + Cost(out, sv) <= MaxFaults
               /\ faults' = faults + Cost(out, sv)
               /\ now' = now + dur
               /\ state' = AfterTask(state, task, out, now + dur)
               /\ stateFile' = save_state(state', stateFile, sv)
               /\ hist' = Checked(hist, task, now, elapsed, TRUE, out,
                                stepFails)
               /\ pc' = NextPc(task, out)
          ELSE /\ hist' = Checked(hist, task, now, elapsed, FALSE, Returned,
                                FALSE)
               /\ pc' = NextPc(task, Returned)
               /\ UNCHANGED <<now, state, stateFile, faults>>
    /\ UNCHANGED <<running, cycle, pid>>
    /\ UNCHANGED queueVars
    /\ UNCHANGED oneShotVars
    /\ UNCHANGED lateVars

SeoStep == TaskStep("seo")

SocialStep == TaskStep("social")

\* task_heartbeat() swallows every exception of the health check
HeartbeatStep ==
    /\ pc = "heartbeat"
    /\ LET elapsed == seconds_since(state.last_heartbeat, now)
       IN IF IsDue(elapsed, HEARTBEAT_INTERVAL)
          THEN \E dur \in TaskDurations, stepFails \in BOOLEAN,
                  sv \in SaveOutcomes :
               /\ faults + Cost(Returned, sv) <= MaxFaults
               /\ faults' = faults + Cost(Returned, sv)
               /\ now' = now + dur
               /\ state' = AfterHeartbeat(state, now + dur, cycle)
               /\ stateFile' = save_state(state', stateFile, sv)
               /\ hist' = Checked(hist, "heartbeat", now, elapsed, TRUE,
                                Returned, stepFails)
          ELSE /\ hist' = Checked(hist, "heartbeat", now, elapsed, FALSE,
                                Returned, FALSE)
               /\ UNCHANGED <<now, state, stateFile, faults>>
    /\ pc' = NextPc("heartbeat", Returned)
    /\ UNCHANGED <<running, cycle, pid>>
    /\ UNCHANGED queueVars
    /\ UNCHANGED oneShotVars
    /\ UNCHANGED lateVars

\* for _ in range(60): if not running: break; time.sleep(1)
Sleep ==
    /\ pc = "sleep"
    /\ IF running
       THEN \E d \in Delays : now' = now + d
       ELSE now' = now
    /\ pc' = "loop"
    /\ UNCHANGED <<running, state, stateFile, cycle, pid, hist, faults>>
    /\ UNCHANGED queueVars
    /\ UNCHANGED oneShotVars
    /\ UNCHANGED lateVars

\* signal_handler: SIGTERM or SIGINT
Signal ==
    /\ pc \notin {"stopped", "dead"}
    /\ running
    /\ running' = FALSE
    /\ UNCHANGED <<now, pc, state, stateFile, cycle, pid, hist, faults>>
    /\ UNCHANGED queueVars
    /\ UNCHANGED oneShotVars
    /\ UNCHANGED lateVars

\* the process is killed (SIGKILL, power loss) between two steps: its
\* memory is gone, the files stay
Kill ==
    /\ pc \notin {"stopped", "dead"}
    /\ pc' = "dead"
    /\ running' = FALSE
    /\ state' = EmptyState
    /\ cycle' = 0
    /\ hist' = NoHist
    /\ UNCHANGED <<now, stateFile, pid, faults>>
    /\ UNCHANGED queueVars
    /\ UNCHANGED oneShotVars
    /\ UNCHANGED lateVars

\* the daemon is started again: running = True, state = load_state(),
\* cycle = 0
Restart ==
    /\ pc \in {"stopped", "dead"}
    /\ pid < MaxRestarts
    /\ \E d \in Downtimes : now' = now + d
    /\ pid' = pid + 1
    /\ running' = TRUE
    /\ state' = load_state(stateFile)
    /\ cycle' = 0
    /\ hist' = NoHist
    /\ pc' = "loop"
    /\ UNCHANGED <<stateFile, faults>>
    /\ UNCHANGED queueVars
    /\ UNCHANGED oneShotVars
    /\ UNCHANGED lateVars

\* ------------------------------------------------------------------------
\* UsageTracker (safety.py)
\* ------------------------------------------------------------------------
\* config.MAX_CONSECUTIVE_ERRORS, config.MAX_TOTAL_RUNTIME_SECONDS and the
\* ceiling of is_abnormal
MAX_CONSECUTIVE_ERRORS == 3

MAX_TOTAL_RUNTIME_SECONDS == 300

CALL_CEILING == 50

\* the gemini counter may reach MaxCalls, the other counters MaxOtherCalls,
\* an error counter MaxErrorCount and the consecutive errors MaxConsecutive
MaxCalls == 51

MaxOtherCalls == 1

MaxErrorCount == 1

MaxConsecutive == 4

\* the keys of self.api_calls and of self.errors
TrackedServices ==
    {"gemini", "twitter_read", "twitter_write", "google_index", "pinterest",
     "indexnow"}

ErrorCategories == {"gemini", "twitter", "other"}

\* UsageTracker.__init__
NewTracker ==
    [api_calls |-> [s \in TrackedServices |-> 0],
     errors |-> [c \in ErrorCategories |-> 0],
     consecutive_errors |-> 0]

\* log_api_call(service)
log_api_call(t, service) ==
    LET counted == IF service \in DOMAIN t.api_calls
                   THEN [t EXCEPT !.api_calls[service] = @ + 1]
                   ELSE t
    IN [counted EXCEPT !.consecutive_errors = 0]

\* a log_error that counts a failure only under a known category
log_errorKnownOnly(t, service) ==
    IF service \in DOMAIN t.errors
    THEN [t EXCEPT !.errors[service] = @ + 1, !.consecutive_errors = @ + 1]
    ELSE t

\* log_error(service)
log_error(t, service) ==
    LET counted == IF service \in DOMAIN t.errors
                   THEN [t EXCEPT !.errors[service] = @ + 1]
                   ELSE t
    IN [counted EXCEPT !.consecutive_errors = @ + 1]

\* sum(d.values())
RECURSIVE SumValues(_, _)
SumValues(d, keys) ==
    IF keys = {} THEN 0
    ELSE LET k == CHOOSE k \in keys : TRUE
         IN d[k] + SumValues(d, keys \ {k})

total_calls(t) == SumValues(t.api_calls, DOMAIN t.api_calls)

\* an is_abnormal whose ceiling is reached at 50 calls
is_abnormalAtCeiling(t, max_consecutive) ==
    t.consecutive_errors >= max_consecutive \/ total_calls(t) >= CALL_CEILING

\* an is_abnormal that looks at the ceiling only after a failure
is_abnormalAfterFailure(t, max_consecutive) ==
    \/ t.consecutive_errors >= max_consecutive
    \/ (t.consecutive_errors > 0 /\ total_calls(t) > CALL_CEILING)

\* is_abnormal(max_consecutive)
is_abnormal(t, max_consecutive) ==
    IF t.consecutive_errors >= max_consecutive THEN TRUE
    ELSE IF total_calls(t) > CALL_CEILING THEN TRUE
    ELSE FALSE

\* one operation on the tracker: log_api_call or log_error with a service
Call(service) == [op |-> "call", service |-> service]
Failure(service) == [op |-> "error", service |-> service]

Do(t, o) ==
    IF o.op = "call" THEN log_api_call(t, o.service)
    ELSE log_error(t, o.service)

RECURSIVE DoAll(_, _)
DoAll(t, ops) ==
    IF ops = <<>> THEN t ELSE DoAll(Do(t, Head(ops)), Tail(ops))

\* the record of the operations made: the last one, a bit that flips at
\* every operation, and the log_error calls since the last log_api_call
NoTrackLog ==
    [op |-> "none", service |-> "none", tog |-> FALSE, failures |-> 0]

Noted(l, o) ==
    [op |-> o.op, service |-> o.service, tog |-> ~l.tog,
     failures |-> IF o.op = "call" THEN 0 ELSE l.failures + 1]

RECURSIVE NotedAll(_, _)
NotedAll(l, ops) ==
    IF ops = <<>> THEN l ELSE NotedAll(Noted(l, Head(ops)), Tail(ops))

\* no one-shot run yet: a fresh tracker, the orchestrator not started
OneShotIdle ==
    /\ tracker = NewTracker
    /\ trackLog = NoTrackLog
    /\ opc = "idle"
    /\ exitStatus = NONE
    /\ keywords = "none"
    /\ blog = "none"
    /\ consecutive_step_errors = 0
    /\ steps = <<>>
    /\ alarmAt = NONE

\* ------------------------------------------------------------------------
\* The runs observed one at a time: the generator's response, the runs in
\* flight on the queue index, the writer agent's counter
\* ------------------------------------------------------------------------
\* config.py
GEMINI_DAILY_CALL_LIMIT == 5

\* no batch_generate run yet
NoGenLog ==
    [resp |-> "none", topics |-> <<>>, count |-> 0, written |-> <<>>]

\* no publish_todays_posts run in flight
IdlePub ==
    [phase |-> "idle", queue |-> <<>>, copied |-> <<>>,
     base |-> AbsentQueue]

\* no batch_generate run in flight
IdleGen == [phase |-> "idle", entries |-> <<>>, base |-> AbsentQueue]

\* QUEUE_INDEX not written yet
NoWrite ==
    [who |-> "none", tog |-> FALSE, base |-> AbsentQueue,
     before |-> AbsentQueue]

LateIdle ==
    /\ genLog = NoGenLog
    /\ pubMem = IdlePub
    /\ genMem = IdleGen
    /\ lastWrite = NoWrite
    /\ _gemini_call_count = 0
    /\ contacts = 0
    /\ refused = 0

\* a queue of two entries dated today, one published and one not
SampleQueue ==
    GoodQueue(<<[slug |-> Slug(0, <<"a">>), title |-> <<"a">>,
                 pub_date |-> 0, file |-> Slug(0, <<"a">>),
                 published |-> TRUE],
                [slug |-> Slug(0, <<"b">>), title |-> <<"b">>,
                 pub_date |-> 0, file |-> Slug(0, <<"b">>),
                 published |-> FALSE]>>)

\* the first start of the daemon: no state file yet; the queue index is
\* absent, unreadable or holds a generated batch
Init ==
    /\ now = 0
    /\ pc = "loop"
    /\ running = TRUE
    /\ stateFile = AbsentFile
    /\ state = load_state(stateFile)
    /\ cycle = 0
    /\ pid = 0
    /\ hist = NoHist
    /\ faults = 0
    /\ \/ /\ queueFile \in {AbsentQueue, MalformedQueue}
          /\ docs = {}
       \/ /\ queueFile = SampleQueue
          /\ docs = {Slug(0, <<"a">>)}
    /\ lastOp = NoOp
    /\ OneShotIdle
    /\ LateIdle

Next ==
    \/ LoopHead
    \/ ContentStep
    \/ SeoStep
    \/ SocialStep
    \/ HeartbeatStep
    \/ Sleep
    \/ Signal
    \/ Kill
    \/ Restart

Spec == Init /\ [][Next]_vars

\* ------------------------------------------------------------------------
\* The batch publisher run from the command line
\* ------------------------------------------------------------------------
\* the files of the entries due today
DueFiles(qf, today) ==
    IF qf.kind # "ok" THEN {}
    ELSE {qf.entries[i].file : i \in
             {j \in 1..Len(qf.entries) :
                 /\ qf.entries[j].pub_date = today
                 /\ ~qf.entries[j].published}}

\* python3 batch_publisher.py --generate
BatchGenerate ==
    /\ \E topics \in TopicLists, wr \in WriteOutcomes :
          LET r == batch_generate(topics, TOTAL_POSTS, queueFile,
                                  Today(now), wr)
          IN /\ queueFile' = r.queueFile
             /\ lastOp' = GenerateOp(r, lastOp)
    /\ UNCHANGED <<now, docs>>
    /\ UNCHANGED schedVars
    /\ UNCHANGED oneShotVars
    /\ UNCHANGED lateVars

\* python3 batch_publisher.py --publish
Publish ==
    /\ \E missing \in SUBSET DueFiles(queueFile, Today(now)),
          failAt \in 0..MaxTopics, wr \in WriteOutcomes :
          LET r == publish_todays_posts(queueFile, missing, docs,
                                        Today(now), failAt, wr)
          IN /\ queueFile' = r.queueFile
             /\ docs' = r.docs
             /\ lastOp' = PublishOp(r, lastOp, missing)
    /\ UNCHANGED now
    /\ UNCHANGED schedVars
    /\ UNCHANGED oneShotVars
    /\ UNCHANGED lateVars

\* midnight UTC passes
NextDay ==
    /\ Today(now) < MaxDay
    /\ now' = now + DAY_SECONDS
    /\ UNCHANGED queueVars
    /\ UNCHANGED schedVars
    /\ UNCHANGED oneShotVars
    /\ UNCHANGED lateVars

\* the batch publisher before its first run; the daemon is not running
QueueInit ==
    /\ now = 0
    /\ pc = "dead"
    /\ running = FALSE
    /\ stateFile = AbsentFile
    /\ state = EmptyState
    /\ cycle = 0
    /\ pid = 0
    /\ hist = NoHist
    /\ faults = 0
    /\ queueFile = AbsentQueue
    /\ docs = {}
    /\ lastOp = NoOp
    /\ OneShotIdle
    /\ LateIdle

QueueNext ==
    \/ BatchGenerate
    \/ Publish
    \/ NextDay

QueueSpec == QueueInit /\ [][QueueNext]_vars

\* the daemon alone, never killed: every step of main() is taken when it
\* can be (a task in flight terminates, the sleep ends)
Program ==
    \/ LoopHead
    \/ ContentStep
    \/ SeoStep
    \/ SocialStep
    \/ HeartbeatStep
    \/ Sleep

LiveNext ==
    \/ Program
    \/ Signal

FairSpec == Init /\ [][LiveNext]_vars /\ WF_vars(Program)

\* ------------------------------------------------------------------------
\* The tracker under the calls the agents make
\* ------------------------------------------------------------------------
\* the services the agents pass to log_api_call: three keys of api_calls,
\* and "gemini_flash" (batch_publisher.py), which is not a key
CalledServices == {"gemini", "twitter_write", "google_index", "gemini_flash"}

\* the categories the agents pass to log_error: two keys of errors, and
\* "maps" (agents/maps_agent.py), which is not a key
FailedServices == {"gemini", "other", "maps"}

CallCap(service) == IF service = "gemini" THEN MaxCalls ELSE MaxOtherCalls

\* tracker.log_api_call(service)
LogApiCall ==
    /\ \E service \in CalledServices :
          /\ service \in TrackedServices
                => tracker.api_calls[service] < CallCap(service)
          /\ tracker' = log_api_call(tracker, service)
          /\ trackLog' = Noted(trackLog, Call(service))
    /\ UNCHANGED <<now, orchVars>>
    /\ UNCHANGED schedVars
    /\ UNCHANGED queueVars
    /\ UNCHANGED lateVars

\* tracker.log_error(service)
LogError ==
    /\ \E service \in FailedServices :
          /\ tracker.consecutive_errors < MaxConsecutive
          /\ service \in ErrorCategories
                => tracker.errors[service] < MaxErrorCount
          /\ tracker' = log_error(tracker, service)
          /\ trackLog' = Noted(trackLog, Failure(service))
    /\ UNCHANGED <<now, orchVars>>
    /\ UNCHANGED schedVars
    /\ UNCHANGED queueVars
    /\ UNCHANGED lateVars

\* tracker = UsageTracker() at the import of safety
TrackerInit == QueueInit

TrackerNext ==
    \/ LogApiCall
    \/ LogError

TrackerSpec == TrackerInit /\ [][TrackerNext]_vars

\* ------------------------------------------------------------------------
\* The one-shot orchestrator (main.py, main)
\* ------------------------------------------------------------------------
\* how long a step may take, seconds
StepSeconds ==
    {1, MAX_TOTAL_RUNTIME_SECONDS \div 2, MAX_TOTAL_RUNTIME_SECONDS}

\* a start that arms no deadline
NoAlarm(t) == NONE

\* _setup_timeout() at clock t: signal.alarm(MAX_TOTAL_RUNTIME_SECONDS), or
\* the threading.Timer where SIGALRM does not exist
_setup_timeout(t) == t + MAX_TOTAL_RUNTIME_SECONDS

\* the deadline falls in a step that starts now and would take d seconds
Expired(d) == alarmAt # NONE /\ now + d >= alarmAt

\* _timeout_handler: sys.exit(1) in the middle of the step called name
\* (os._exit(1) from the timer thread); SystemExit is no Exception, so no
\* except clause of the pipeline stops it
TimedOut(name) ==
    /\ now' = alarmAt
    /\ steps' = Append(steps, name)
    /\ opc' = "exited"
    /\ exitStatus' = 1
    /\ UNCHANGED <<tracker, trackLog, keywords, blog,
                   consecutive_step_errors, alarmAt>>

\* sys.exit(status), or the interpreter ending on an uncaught exception
Exit(status) == opc' = "exited" /\ exitStatus' = status

\* main() up to the first step
Setup ==
    /\ opc = "idle"
    /\ alarmAt' = _setup_timeout(now)
    /\ consecutive_step_errors' = 0
    /\ opc' = "fetch"
    /\ UNCHANGED <<now, tracker, trackLog, exitStatus, keywords, blog, steps>>
    /\ UNCHANGED schedVars
    /\ UNCHANGED queueVars
    /\ UNCHANGED lateVars

\* STEP 1: fetch_trending_keywords() gives keywords, an empty list, or
\* raises
FetchOutcomes == {"some", "empty", "raise"}

\* a pipeline that goes on without keywords
AfterFetchGoesOn(kw) == "generate"

\* a pipeline that exits on an empty list only, and goes on when the
\* fetch raised
AfterFetchExitsOnEmpty(kw) == IF kw = "empty" THEN "exited" ELSE "generate"

\* if not keywords: sys.exit(1)
AfterFetch(kw) == IF kw # "some" THEN "exited" ELSE "generate"

FetchKeywords ==
    /\ opc = "fetch"
    /\ \E d \in StepSeconds, out \in FetchOutcomes :
          IF Expired(d) THEN TimedOut("fetch")
          ELSE LET kw == IF out = "raise" THEN "none" ELSE out
               IN /\ now' = now + d
                  /\ steps' = Append(steps, "fetch")
                  /\ keywords' = kw
                  /\ consecutive_step_errors' =
                        IF out = "raise" THEN consecutive_step_errors + 1
                        ELSE consecutive_step_errors
                  /\ opc' = AfterFetch(kw)
                  /\ exitStatus' = IF AfterFetch(kw) = "exited" THEN 1
                                   ELSE exitStatus
                  /\ UNCHANGED <<tracker, trackLog, blog, alarmAt>>
    /\ UNCHANGED schedVars
    /\ UNCHANGED queueVars
    /\ UNCHANGED lateVars

\* STEP 2: generate_blog_post(keywords) with what it logs in the tracker.
\* No API key or Gemini limit reached: {} and nothing logged; the article
\* call raises: log_error, {}; an empty article text: {}; an article, the
\* summary call succeeding or failing (logged, not fatal); an exception
\* leaving the function before the first call or at the file write.
GenerateOutcomes ==
    {[blog |-> "empty", ops |-> <<>>],
     [blog |-> "empty", ops |-> <<Failure("gemini")>>],
     [blog |-> "empty", ops |-> <<Call("gemini")>>],
     [blog |-> "article", ops |-> <<Call("gemini"), Call("gemini")>>],
     [blog |-> "article", ops |-> <<Call("gemini"), Failure("gemini")>>],
     [blog |-> "raise", ops |-> <<>>],
     [blog |-> "raise", ops |-> <<Call("gemini"), Call("gemini")>>],
     [blog |-> "raise", ops |-> <<Call("gemini"), Failure("gemini")>>]}

\* if consecutive_step_errors >= MAX_CONSECUTIVE_ERRORS: sys.exit(1)
\* if not blog: sys.exit(1)
AfterGenerate(b, errs) ==
    IF errs >= MAX_CONSECUTIVE_ERRORS THEN "exited"
    ELSE IF b # "article" THEN "exited"
    ELSE "sitemap"

GenerateArticle ==
    /\ opc = "generate"
    /\ \E d \in StepSeconds, out \in GenerateOutcomes :
          IF Expired(d) THEN TimedOut("generate") /\ UNCHANGED writerVars
          ELSE LET b == IF out.blog = "raise" THEN "none" ELSE out.blog
                   errs == IF out.blog = "raise"
                           THEN consecutive_step_errors + 1
                           ELSE consecutive_step_errors
                   next == AfterGenerate(b, errs)
               IN /\ now' = now + d
                  /\ steps' = Append(steps, "generate")
                  /\ blog' = b
                  /\ tracker' = DoAll(tracker, out.ops)
                  /\ trackLog' = NotedAll(trackLog, out.ops)
                  /\ consecutive_step_errors' =
                        IF next = "exited" THEN errs ELSE 0
                  /\ opc' = next
                  /\ exitStatus' = IF next = "exited" THEN 1 ELSE exitStatus
                  /\ _gemini_call_count' = _gemini_call_count + Len(out.ops)
                  /\ contacts' = contacts + Len(out.ops)
                  /\ refused' = 0
                  /\ UNCHANGED <<keywords, alarmAt>>
    /\ UNCHANGED schedVars
    /\ UNCHANGED queueVars
    /\ UNCHANGED <<genVars, raceVars>>

\* STEP 3: update_sitemap(all_slugs), called outside any try: an OSError
\* of the file write ends the process
UpdateSitemap ==
    /\ opc = "sitemap"
    /\ \E d \in StepSeconds, raised \in BOOLEAN :
          IF Expired(d) THEN TimedOut("sitemap")
          ELSE /\ now' = now + d
               /\ steps' = Append(steps, "sitemap")
               /\ IF raised THEN Exit(1)
                  ELSE opc' = "tweet" /\ exitStatus' = exitStatus
               /\ UNCHANGED <<tracker, trackLog, keywords, blog,
                              consecutive_step_errors, alarmAt>>
    /\ UNCHANGED schedVars
    /\ UNCHANGED queueVars
    /\ UNCHANGED lateVars

\* STEP 4, post_to_twitter(summary, slug): skipped without credentials
\* (False); the tweet is posted (True); tweepy.TweepyException is caught
\* and logged (False); any other exception of the client or of the read of
\* response.data leaves the function, before or after the call is logged
TweetOutcomes ==
    {[raised |-> FALSE, ops |-> <<>>],
     [raised |-> FALSE, ops |-> <<Call("twitter_write")>>],
     [raised |-> FALSE, ops |-> <<Failure("twitter")>>],
     [raised |-> TRUE, ops |-> <<>>],
     [raised |-> TRUE, ops |-> <<Call("twitter_write")>>]}

PostToTwitter ==
    /\ opc = "tweet"
    /\ \E d \in StepSeconds, out \in TweetOutcomes :
          IF Expired(d) THEN TimedOut("post")
          ELSE /\ now' = now + d
               /\ steps' = Append(steps, "post")
               /\ tracker' = DoAll(tracker, out.ops)
               /\ trackLog' = NotedAll(trackLog, out.ops)
               /\ IF out.raised THEN Exit(1)
                  ELSE opc' = "ping" /\ exitStatus' = exitStatus
               /\ UNCHANGED <<keywords, blog, consecutive_step_errors,
                              alarmAt>>
    /\ UNCHANGED schedVars
    /\ UNCHANGED queueVars
    /\ UNCHANGED lateVars

\* STEP 4, ping_google_indexing(slug): the Google ping and the IndexNow
\* request each answer (logged as a call) or raise
\* requests.RequestException (caught, logged as an error)
PingOutcomes ==
    {<<Call("google_index"), Call("indexnow")>>,
     <<Call("google_index"), Failure("other")>>,
     <<Failure("other"), Call("indexnow")>>,
     <<Failure("other"), Failure("other")>>}

PingIndexing ==
    /\ opc = "ping"
    /\ \E d \in StepSeconds, ops \in PingOutcomes :
          IF Expired(d)
          THEN /\ now' = alarmAt
               /\ Exit(1)
               /\ UNCHANGED <<tracker, trackLog, steps>>
          ELSE /\ now' = now + d
               /\ tracker' = DoAll(tracker, ops)
               /\ trackLog' = NotedAll(trackLog, ops)
               /\ opc' = "report"
               /\ UNCHANGED <<exitStatus, steps>>
    /\ UNCHANGED <<keywords, blog, consecutive_step_errors, alarmAt>>
    /\ UNCHANGED schedVars
    /\ UNCHANGED queueVars
    /\ UNCHANGED lateVars

\* the summary; main() returns and the process exits with status 0
Report ==
    /\ opc = "report"
    /\ \E d \in {0, 1} :
          IF Expired(d) THEN TimedOut("report")
          ELSE /\ now' = now + d
               /\ steps' = Append(steps, "report")
               /\ Exit(0)
               /\ UNCHANGED <<tracker, trackLog, keywords, blog,
                              consecutive_step_errors, alarmAt>>
    /\ UNCHANGED schedVars
    /\ UNCHANGED queueVars
    /\ UNCHANGED lateVars

\* python main.py in a fresh process
OrchInit == QueueInit

OrchNext ==
    \/ Setup
    \/ FetchKeywords
    \/ GenerateArticle
    \/ UpdateSitemap
    \/ PostToTwitter
    \/ PingIndexing
    \/ Report

OrchSpec == OrchInit /\ [][OrchNext]_vars

\* ------------------------------------------------------------------------
\* batch_generate on the generator's response
\* ------------------------------------------------------------------------
\* the count argument of batch_generate: 1, and the default
Counts == {1, TOTAL_POSTS}

\* batch_generate(count), from the response of the topic call on
GenerateBatch ==
    /\ \E resp \in Responses, count \in Counts, wr \in WriteOutcomes :
          LET topics == generate_weekly_topics(resp)
              r == batch_generate(topics, count, queueFile, Today(now), wr)
          IN /\ queueFile' = r.queueFile
             /\ lastOp' = GenerateOp(r, lastOp)
             /\ genLog' = [resp |-> resp.kind, topics |-> topics,
                           count |-> count, written |-> r.written]
    /\ UNCHANGED <<now, docs>>
    /\ UNCHANGED schedVars
    /\ UNCHANGED oneShotVars
    /\ UNCHANGED <<raceVars, writerVars>>

GenInit == QueueInit

GenNext == GenerateBatch

GenSpec == GenInit /\ [][GenNext]_vars

\* ------------------------------------------------------------------------
\* Two batch publisher processes on one queue index
\* ------------------------------------------------------------------------
\* the topics of the generator in the interleaved runs: no topic, or one
\* of two titles for today
RaceTopicLists ==
    SeqsUpTo({Topic(<<"a">>, 1, BODY_MIN), Topic(<<"b">>, 1, BODY_MIN)}, 1)

\* a writer that looks at the index again and keeps it when it is no
\* longer the one the run started from
WriteBackIfUnchanged(entries, base, file, outcome) ==
    IF file = base THEN WriteQueue(entries, file, outcome) ELSE file

\* with open(QUEUE_INDEX, "w"): json.dump(...) of what the run holds in
\* memory: the file is opened for writing without a look at its content
WriteBack(entries, base, file, outcome) == WriteQueue(entries, file, outcome)

\* the record of a write that replaced the index
Wrote(who, base, file) ==
    [who |-> who, tog |-> ~lastWrite.tog, base |-> base, before |-> file]

\* publish_todays_posts up to the end of its loop: the index is read, the
\* due files are copied and flagged in memory
PubLoad ==
    /\ pubMem.phase = "idle"
    /\ \E missing \in SUBSET DueFiles(queueFile, Today(now)),
          failAt \in 0..MaxTopics :
          LET r == publish_todays_posts(queueFile, missing, docs,
                                        Today(now), failAt, "ok")
              ends == \/ queueFile.kind # "ok"
                      \/ todays_posts(queueFile.entries, Today(now)) = <<>>
                      \/ r.raised
          IN /\ docs' = r.docs
             /\ IF ends
                THEN /\ lastOp' = PublishOp(r, lastOp, missing)
                     /\ pubMem' = pubMem
                ELSE /\ lastOp' = lastOp
                     /\ pubMem' = [phase |-> "loaded",
                                   queue |-> r.queueFile.entries,
                                   copied |-> r.copied, base |-> queueFile]
    /\ UNCHANGED <<now, queueFile, genMem, lastWrite>>
    /\ UNCHANGED schedVars
    /\ UNCHANGED oneShotVars
    /\ UNCHANGED <<genVars, writerVars>>

\* publish_todays_posts from the write of the index on
PubDump ==
    /\ pubMem.phase = "loaded"
    /\ \E wr \in WriteOutcomes :
          /\ queueFile' = WriteBack(pubMem.queue, pubMem.base, queueFile, wr)
          /\ lastWrite' = IF wr = "ok"
                          THEN Wrote("publish", pubMem.base, queueFile)
                          ELSE lastWrite
          /\ lastOp' =
                [op |-> "publish", tog |-> ~lastOp.tog, raised |-> wr # "ok",
                 ret |-> IF wr = "ok" THEN Len(pubMem.copied) ELSE 0,
                 copied |-> pubMem.copied,
                 rebuilds |-> IF wr = "ok"
                              THEN Rebuilds(Len(pubMem.copied)) ELSE 0,
                 missing |-> {}]
    /\ pubMem' = IdlePub
    /\ UNCHANGED <<now, docs, genMem>>
    /\ UNCHANGED schedVars
    /\ UNCHANGED oneShotVars
    /\ UNCHANGED <<genVars, writerVars>>

\* batch_generate up to the end of its loop: queue_index is built in
\* memory
GenStart ==
    /\ genMem.phase = "idle"
    /\ \E topics \in RaceTopicLists :
          IF topics = <<>>
          THEN /\ lastOp' = GenerateOp(batch_generate(topics, TOTAL_POSTS,
                                           queueFile, Today(now), "ok"),
                                       lastOp)
               /\ genMem' = genMem
          ELSE /\ lastOp' = lastOp
               /\ genMem' =
                     [phase |-> "built",
                      entries |-> GenerateLoop(topics, 1, Today(now), <<>>),
                      base |-> queueFile]
    /\ UNCHANGED <<now, queueFile, docs, pubMem, lastWrite>>
    /\ UNCHANGED schedVars
    /\ UNCHANGED oneShotVars
    /\ UNCHANGED <<genVars, writerVars>>

\* batch_generate from the write of the index on
GenDump ==
    /\ genMem.phase = "built"
    /\ \E wr \in WriteOutcomes :
          /\ queueFile' = WriteBack(NewIndex(queueFile.entries, genMem.entries),
                                    genMem.base, queueFile, wr)
          /\ lastWrite' = IF wr = "ok"
                          THEN Wrote("generate", genMem.base, queueFile)
                          ELSE lastWrite
          /\ lastOp' =
                [op |-> "generate", tog |-> ~lastOp.tog,
                 raised |-> wr # "ok",
                 ret |-> IF wr = "ok" THEN Len(genMem.entries) ELSE 0,
                 copied |-> <<>>, rebuilds |-> 0, missing |-> {}]
    /\ genMem' = IdleGen
    /\ UNCHANGED <<now, docs, pubMem>>
    /\ UNCHANGED schedVars
    /\ UNCHANGED oneShotVars
    /\ UNCHANGED <<genVars, writerVars>>

RaceInit == QueueInit

RaceNext ==
    \/ PubLoad
    \/ PubDump
    \/ GenStart
    \/ GenDump

RaceSpec == RaceInit /\ [][RaceNext]_vars

\* ------------------------------------------------------------------------
\* The writer agent called again and again in one process
\* ------------------------------------------------------------------------
\* how client.models.generate_content ends: a text, an empty text, an
\* exception
ApiOutcomes == {"text", "blank", "raise"}

\* a check that lets the call through at the limit
_check_gemini_limitAtLimit(count) == count <= GEMINI_DAILY_CALL_LIMIT

\* _check_gemini_limit(): False at the limit
_check_gemini_limit(count) == count < GEMINI_DAILY_CALL_LIMIT

\* _call_gemini(client, prompt) with the counter at count: the counter
\* after it, whether the API was contacted, whether the check turned the
\* call down, what comes back, and what the tracker is told
_call_gemini(count, api) ==
    IF ~_check_gemini_limit(count)
    THEN [count |-> count, contacted |-> 0, refused |-> 1,
          result |-> "blank", ops |-> <<>>]
    ELSE [count |-> count + 1, contacted |-> 1, refused |-> 0,
          result |-> api,
          ops |-> IF api = "raise" THEN <<>> ELSE <<Call("gemini")>>]

\* generate_blog_post(keywords): hasKey, GEMINI_API_KEY is set; setupOk,
\* genai.Client() and the prompt are built; api1 and api2, how the article
\* call and the summary call end if they reach the API; fileOk, the HTML
\* file is written
generate_blog_post(count, hasKey, setupOk, api1, api2, fileOk) ==
    IF ~hasKey
    THEN [count |-> count, contacted |-> 0, refused |-> 0,
          blog |-> "empty", ops |-> <<>>]
    ELSE IF ~setupOk
    THEN [count |-> count, contacted |-> 0, refused |-> 0,
          blog |-> "raise", ops |-> <<>>]
    ELSE LET c1 == _call_gemini(count, api1)
         IN IF c1.result # "text"
            THEN [count |-> c1.count, contacted |-> c1.contacted,
                  refused |-> c1.refused, blog |-> "empty",
                  ops |-> IF c1.result = "raise"
                          THEN <<Failure("gemini")>> ELSE c1.ops]
            ELSE LET c2 == _call_gemini(c1.count, api2)
                 IN [count |-> c2.count,
                     contacted |-> c1.contacted + c2.contacted,
                     refused |-> c2.refused,
                     blog |-> IF fileOk THEN "article" ELSE "raise",
                     ops |-> c1.ops \o
                             (IF c2.result = "raise"
                              THEN <<Failure("gemini")>> ELSE c2.ops)]

\* one more generate_blog_post call in the process
GenerateBlogPost ==
    /\ \E hasKey \in BOOLEAN, setupOk \in BOOLEAN, api1 \in ApiOutcomes,
          api2 \in ApiOutcomes, fileOk \in BOOLEAN :
          LET r == generate_blog_post(_gemini_call_count, hasKey, setupOk,
                                      api1, api2, fileOk)
          IN /\ _gemini_call_count' = r.count
             /\ contacts' = contacts + r.contacted
             /\ refused' = r.refused
             /\ blog' = IF r.blog = "raise" THEN "none" ELSE r.blog
             /\ tracker' = DoAll(tracker, r.ops)
             /\ trackLog' = NotedAll(trackLog, r.ops)
    /\ UNCHANGED <<now, opc, exitStatus, keywords, consecutive_step_errors,
                   steps, alarmAt>>
    /\ UNCHANGED schedVars
    /\ UNCHANGED queueVars
    /\ UNCHANGED <<genVars, raceVars>>

WriterInit == QueueInit

WriterNext == GenerateBlogPost

WriterSpec == WriterInit /\ [][WriterNext]_vars

\* ------------------------------------------------------------------------
\* The daemon started on a state file it did not write
\* ------------------------------------------------------------------------
\* a state file where every timestamp is unparseable text
GarbledState ==
    [EmptyState EXCEPT !.last_content = BAD, !.last_seo = BAD,
                       !.last_social = BAD, !.last_heartbeat = BAD]

\* a state file with a content run and a heartbeat just recorded, no SEO
\* timestamp and an unparseable social timestamp
PartialState ==
    [EmptyState EXCEPT !.last_content = 0, !.last_content_status = StatusOk,
                       !.last_social = BAD, !.last_heartbeat = 0]

\* what STATE_FILE may hold at the start: nothing, no JSON (or no
\* permission to read), an empty object, the two files above
ColdFiles ==
    {AbsentFile, CorruptFile, GoodFile(EmptyState), GoodFile(GarbledState),
     GoodFile(PartialState)}

ColdInit ==
    /\ now = 0
    /\ pc = "loop"
    /\ running = TRUE
    /\ stateFile \in ColdFiles
    /\ state = load_state(stateFile)
    /\ cycle = 0
    /\ pid = 0
    /\ hist = NoHist
    /\ faults = 0
    /\ queueFile = AbsentQueue
    /\ docs = {}
    /\ lastOp = NoOp
    /\ OneShotIdle
    /\ LateIdle

ColdSpec == ColdInit /\ [][Program]_vars

\* ------------------------------------------------------------------------
\* Properties of the scheduler loop
\* ------------------------------------------------------------------------
RetriedTasks == {"content", "seo", "social"}

\* the step is the branch of task t of the current tick
BranchOf(t) == pc = t /\ hist'.task = t

\* the first n characters of a message
Prefix(msg, n) == [i \in 1..Min(Len(msg), n) |-> msg[i]]

\* C1: when the call of a due content, SEO or social task raises, its
\* last-run timestamp is left as it was and its status becomes "error: "
\* with the first 100 characters of the message; when the call returns the
\* timestamp is the clock after the call and the status is "ok"; a task
\* that is not called keeps both.
C1_StampOnlyOnSuccess ==
    [][\A t \in RetriedTasks :
         BranchOf(t) =>
            IF ~hist'.invoked
            THEN /\ state'[LastKey(t)] = state[LastKey(t)]
                 /\ state'[StatusKey(t)] = state[StatusKey(t)]
            ELSE IF hist'.raised
            THEN /\ state'[LastKey(t)] = state[LastKey(t)]
                 /\ state'[StatusKey(t)].kind = "error"
                 /\ state'[StatusKey(t)].text = Prefix(hist'.msg, 100)
            ELSE /\ state'[LastKey(t)] = now'
                 /\ state'[StatusKey(t)].kind = "ok"]_vars

\* a task that succeeded earlier raises with a message longer than the
\* limit: the old timestamp stays, the status is the truncated error
C1_Witness ==
    /\ hist.task = "seo"
    /\ hist.raised
    /\ Len(hist.msg) > STATUS_MSG_MAX
    /\ state.last_seo # NONE
    /\ state.last_seo_status.kind = "error"
    /\ Len(state.last_seo_status.text) = STATUS_MSG_MAX

\* C2: at its check in a tick a task is called if and only if it never
\* ran or the clock is at least its interval past its recorded last run.
C2_InvokedIffElapsed ==
    [][\A t \in TaskNames :
         BranchOf(t) =>
            (hist'.invoked <=>
                (\/ state[LastKey(t)] = NONE
                 \/ now - state[LastKey(t)] >= Interval(t)))]_vars

\* the heartbeat one second short of its interval is not called
C2_Witness ==
    /\ hist.task = "heartbeat"
    /\ hist.elapsed = HEARTBEAT_INTERVAL - 1
    /\ ~hist.invoked
    /\ state.last_heartbeat # NONE

\* the branch main() checks after the branch of a task
Successor(t) ==
    CASE t = "content" -> "seo"
      [] t = "seo" -> "social"
      [] t = "social" -> "heartbeat"
      [] OTHER -> "sleep"

\* C3: a task that raises does not end the tick or the loop: the loop goes
\* on to the next branch, at the end of the tick every task was checked
\* and every task found due was called, and from the sleep the loop goes
\* back to its head and starts the next tick while running.
C3_RaiseDoesNotAbort ==
    [][/\ \A t \in RetriedTasks :
            (BranchOf(t) /\ hist'.raised) => pc' = Successor(t)
       /\ (pc = "heartbeat" /\ pc' = "sleep") =>
            (hist'.checked = TaskNames /\ hist'.attempted = hist'.due)
       /\ (pc = "sleep" /\ hist.failed # {} /\ pc' \notin {"sleep", "dead"})
            => pc' = "loop"
       /\ (pc = "loop" /\ running /\ hist.failed # {}
              /\ pc' \notin {"loop", "dead"})
            => (pc' = "content" /\ cycle' = cycle + 1)]_vars

\* the content task raised and the three later tasks of the tick were
\* still called
C3_Witness ==
    /\ pc = "sleep"
    /\ "content" \in hist.failed
    /\ {"seo", "social", "heartbeat"} \subseteq hist.attempted


\* C4: when a step inside a called content, SEO or social task fails
\* (swallowed inside the task or leaving it), the task's last-run timestamp
\* is not advanced.
C4_InnerFailureKeepsStamp ==
    [][\A t \in RetriedTasks :
         (BranchOf(t) /\ hist'.invoked /\ (hist'.swallowed \/ hist'.raised))
            => state'[LastKey(t)] = state[LastKey(t)]]_vars

\* C5: a start of the daemon loads the persisted schedule state, and at its
\* check in the first tick after a restart a task is called if and only if
\* its interval has elapsed since its persisted last-run timestamp (a task
\* with no persisted timestamp is called).
C5_RestartRecovery ==
    [][/\ (pc \in {"stopped", "dead"} /\ pc' = "loop"
              /\ stateFile.kind = "ok")
            => state' = stateFile.data
       /\ \A t \in TaskNames :
            (pid > 0 /\ cycle = 1 /\ BranchOf(t) /\ stateFile.kind = "ok")
               => (hist'.invoked <=>
                      seconds_since(stateFile.data[LastKey(t)], now)
                         >= Interval(t))]_vars

\* the first tick after a restart is over: the SEO task, run less than its
\* interval before, was not called; the heartbeat, whose interval elapsed
\* during the downtime, was
C5_Witness ==
    /\ pid = 1
    /\ cycle = 1
    /\ pc = "sleep"
    /\ state.last_seo # NONE
    /\ "seo" \notin hist.attempted
    /\ hist.task = "heartbeat"
    /\ hist.invoked
    /\ hist.elapsed >= HEARTBEAT_INTERVAL
    /\ hist.elapsed < INF

\* C6: once the signal has cleared the flag the flag stays cleared and no
\* new tick starts; the loop leaves through a last save of the schedule
\* state (which may fail, and is then only logged), the stopped process
\* stays stopped, and with every step of the loop terminating the stopped
\* state is reached.
C6_SignalStops ==
    /\ [][/\ (~running /\ pid' = pid /\ pc' # "dead")
               => (~running' /\ cycle' = cycle)
          /\ (pc = "stopped" /\ pid' = pid) => pc' = "stopped"
          /\ (pc = "loop" /\ pc' = "stopped")
               => (\/ stateFile' = GoodFile(state)
                   \/ faults' = faults + 1)]_vars
    /\ ((~running /\ pc # "dead") ~> (pc = "stopped"))

\* the signal arrived during the first tick: the tick was completed, no
\* second tick was started, the state is saved and the loop has stopped
C6_Witness ==
    /\ pc = "stopped"
    /\ ~running
    /\ cycle = 1
    /\ hist.checked = TaskNames
    /\ stateFile = GoodFile(state)


\* ------------------------------------------------------------------------
\* Properties of the publishing queue
\* ------------------------------------------------------------------------
\* the positions of a queue index, and of its entries with a given flag
Positions(qf) == IF qf.kind = "ok" THEN 1..Len(qf.entries) ELSE {}

SlugsWith(qf, flag) ==
    {qf.entries[i].slug :
        i \in {j \in Positions(qf) : qf.entries[j].published = flag}}

AllSlugs(qf) == {qf.entries[i].slug : i \in Positions(qf)}

\* the step is a run of the operation op
RunOf(op) == lastOp'.tog # lastOp.tog /\ lastOp'.op = op

\* C7: a slug published in the persisted queue index is not unpublished in
\* the index after the next run, and a slug goes from unpublished to
\* published only in a run of publish_todays_posts.
C7_PublishedNeverReverts ==
    [][/\ SlugsWith(queueFile, TRUE) \cap SlugsWith(queueFile', FALSE) = {}
       /\ (SlugsWith(queueFile, FALSE) \cap SlugsWith(queueFile', TRUE) # {})
            => RunOf("publish")]_vars

\* the positions of the entries dated today and not published
DuePositions(qf, today) ==
    {i \in Positions(qf) :
        qf.entries[i].pub_date = today /\ ~qf.entries[i].published}

\* C8: a run of publish_todays_posts on a readable queue index with no
\* unpublished entry dated today returns 0 without raising, copies nothing
\* into the live directory, rebuilds nothing and leaves the index as it is.
C8_PublishIdempotent ==
    [][(/\ RunOf("publish")
        /\ queueFile.kind = "ok"
        /\ DuePositions(queueFile, Today(now)) = {})
         => (/\ ~lastOp'.raised
             /\ lastOp'.ret = 0
             /\ lastOp'.copied = <<>>
             /\ lastOp'.rebuilds = 0
             /\ docs' = docs
             /\ queueFile' = queueFile)]_vars

\* the publisher ran again on a day whose entries are all published
C8_Witness ==
    /\ lastOp.op = "publish"
    /\ ~lastOp.raised
    /\ lastOp.ret = 0
    /\ queueFile.kind = "ok"
    /\ DuePositions(queueFile, Today(now)) = {}
    /\ \E i \in Positions(queueFile) :
          /\ queueFile.entries[i].pub_date = Today(now)
          /\ queueFile.entries[i].published
          /\ queueFile.entries[i].slug \in docs

\* the slugs of the entries at the positions S, in queue order
RECURSIVE SlugsInOrder(_, _, _)
SlugsInOrder(entries, S, i) ==
    IF i > Len(entries) THEN <<>>
    ELSE IF i \in S
         THEN <<entries[i].slug>> \o SlugsInOrder(entries, S, i + 1)
         ELSE SlugsInOrder(entries, S, i + 1)

\* C9: a run of publish_todays_posts that returns marks exactly the
\* unpublished entries dated today whose file it finds, copies them into
\* the live directory in queue order, returns their number, and rebuilds
\* once when that number is at least 1 and not at all when it is 0.
C9_PublishesExactlyDue ==
    [][(RunOf("publish") /\ queueFile.kind = "ok" /\ ~lastOp'.raised) =>
         LET found == {i \in DuePositions(queueFile, Today(now)) :
                          queueFile.entries[i].file \notin lastOp'.missing}
         IN /\ queueFile'.kind = "ok"
            /\ Len(queueFile'.entries) = Len(queueFile.entries)
            /\ \A i \in Positions(queueFile) :
                  queueFile'.entries[i] =
                     IF i \in found
                     THEN [queueFile.entries[i] EXCEPT !.published = TRUE]
                     ELSE queueFile.entries[i]
            /\ lastOp'.copied = SlugsInOrder(queueFile.entries, found, 1)
            /\ lastOp'.ret = Cardinality(found)
            /\ docs' = docs \cup {queueFile.entries[i].slug : i \in found}
            /\ lastOp'.rebuilds = (IF lastOp'.ret >= 1 THEN 1 ELSE 0)]_vars

\* two entries dated today, the first published by an earlier run: the run
\* published the second, copied one file and rebuilt once
C9_Witness ==
    /\ lastOp.op = "publish"
    /\ ~lastOp.raised
    /\ lastOp.ret = 1
    /\ lastOp.rebuilds = 1
    /\ queueFile.kind = "ok"
    /\ Len(queueFile.entries) = 2
    /\ \A i \in 1..2 :
          /\ queueFile.entries[i].pub_date = Today(now)
          /\ queueFile.entries[i].published
    /\ queueFile.entries[1].slug # queueFile.entries[2].slug
    /\ lastOp.copied = <<queueFile.entries[2].slug>>
    /\ docs = {queueFile.entries[1].slug, queueFile.entries[2].slug}

\* C10: between two readable queue indexes no entry is lost, and
\* batch_generate writes the old entries followed by its new ones.
C10_HistoryAccumulates ==
    [][(queueFile.kind = "ok" /\ queueFile'.kind = "ok") =>
         /\ AllSlugs(queueFile) \subseteq AllSlugs(queueFile')
         /\ RunOf("generate") =>
              /\ Len(queueFile'.entries) >= Len(queueFile.entries)
              /\ SubSeq(queueFile'.entries, 1, Len(queueFile.entries))
                    = queueFile.entries]_vars


\* C11: no two entries of a readable queue index have the same slug.
C11_SlugsUnique ==
    queueFile.kind = "ok" =>
       \A i, j \in Positions(queueFile) :
          i # j => queueFile.entries[i].slug # queueFile.entries[j].slug

\* C12: no exception leaves a run of publish_todays_posts, and a run on a
\* missing queue index or with no entry due returns 0.
C12_PublishNeverRaises ==
    [][RunOf("publish") =>
         /\ ~lastOp'.raised
         /\ (\/ queueFile.kind = "absent"
             \/ (queueFile.kind = "ok"
                   /\ DuePositions(queueFile, Today(now)) = {}))
              => lastOp'.ret = 0]_vars


\* ------------------------------------------------------------------------
\* Properties of the usage tracker
\* ------------------------------------------------------------------------
\* the thresholds is_abnormal is asked with
Thresholds == 0..(MaxConsecutive + 1)

\* the sum of the six call counters
CallsOf(t) ==
    t.api_calls["gemini"] + t.api_calls["twitter_read"]
       + t.api_calls["twitter_write"] + t.api_calls["google_index"]
       + t.api_calls["pinterest"] + t.api_calls["indexnow"]

\* the step is one tracker operation op
TrackerRun(op) == trackLog'.tog # trackLog.tog /\ trackLog'.op = op

C14_ConsecutiveCount ==
    /\ [](tracker.consecutive_errors = trackLog.failures)
    /\ [][/\ TrackerRun("call") => tracker'.consecutive_errors = 0
          /\ TrackerRun("error") =>
               tracker'.consecutive_errors = tracker.consecutive_errors + 1
         ]_vars

\* two failures after a success, the second under a category that is not
\* a key of the error counters
C14_Witness ==
    /\ tracker.api_calls["gemini"] > 0
    /\ trackLog.op = "error"
    /\ trackLog.service \notin ErrorCategories
    /\ tracker.consecutive_errors = 2

\* C15: log_api_call with a service that is not a key of the call counters
\* changes nothing in the tracker.
C15_UnknownServiceNoOp ==
    [][(TrackerRun("call") /\ trackLog'.service \notin TrackedServices)
         => tracker' = tracker]_vars

\* C16: log_api_call for a tracked service sets the consecutive errors to
\* 0 whatever the total, and once the call counters sum to more than 50
\* they stay so and is_abnormal is true for every threshold.
C16_CeilingNotReset ==
    /\ [](CallsOf(tracker) > 50
            => \A m \in Thresholds : is_abnormal(tracker, m))
    /\ [][/\ (TrackerRun("call") /\ trackLog'.service \in TrackedServices)
               => tracker'.consecutive_errors = 0
          /\ CallsOf(tracker) > 50 => CallsOf(tracker') > 50]_vars

\* a call of a tracked service made above the ceiling, after failures
C16_Witness ==
    /\ CallsOf(tracker) > 51
    /\ trackLog.op = "call"
    /\ trackLog.service \in TrackedServices
    /\ tracker.consecutive_errors = 0
    /\ tracker.errors["gemini"] > 0
    /\ is_abnormal(tracker, MAX_CONSECUTIVE_ERRORS)


\* ------------------------------------------------------------------------
\* Properties of the one-shot orchestrator
\* ------------------------------------------------------------------------
\* the steps of the pipeline in order
Pipeline == <<"fetch", "generate", "sitemap", "post", "report">>

\* C17: with fewer than three failures since the last success (and the
\* calls under the ceiling) is_abnormal(3) is false, with three it is true,
\* and a run of the orchestrator in which it became true exits with
\* failure status.
C17_ThirdFailureExits ==
    /\ (trackLog.failures < MAX_CONSECUTIVE_ERRORS
          /\ CallsOf(tracker) <= CALL_CEILING)
         => ~is_abnormal(tracker, MAX_CONSECUTIVE_ERRORS)
    /\ trackLog.failures >= MAX_CONSECUTIVE_ERRORS
         => is_abnormal(tracker, MAX_CONSECUTIVE_ERRORS)
    /\ (opc = "exited" /\ trackLog.failures >= MAX_CONSECUTIVE_ERRORS)
         => exitStatus = 1

\* C18: the steps started are a prefix of fetch, generate, sitemap, post,
\* report; the article step starts only with keywords and the later steps
\* only with an article; a fetch that ends without keywords and a
\* generation that ends without an article exit with status 1, and after
\* the exit no step starts.
C18_StepsInOrder ==
    /\ [](/\ Len(steps) <= Len(Pipeline)
          /\ steps = SubSeq(Pipeline, 1, Len(steps))
          /\ Len(steps) >= 2 => keywords = "some"
          /\ Len(steps) >= 3 => blog = "article")
    /\ [][/\ (opc = "fetch" /\ opc' # "fetch" /\ keywords' # "some")
               => (opc' = "exited" /\ exitStatus' = 1)
          /\ (opc = "generate" /\ opc' # "generate" /\ blog' # "article")
               => (opc' = "exited" /\ exitStatus' = 1)
          /\ opc = "exited" => (opc' = "exited" /\ steps' = steps)]_vars

\* generate_blog_post raised well before the deadline: the run has exited
\* with status 1 after two steps
C18_Witness ==
    /\ opc = "exited"
    /\ exitStatus = 1
    /\ steps = <<"fetch", "generate">>
    /\ keywords = "some"
    /\ blog = "none"
    /\ consecutive_step_errors = 1
    /\ now < alarmAt

\* C19: a run that started the posting step and was not cut by the
\* deadline ends with the report and exit status 0.
C19_PostingNonFatal ==
    (opc = "exited" /\ Len(steps) >= 4 /\ now < alarmAt)
       => (exitStatus = 0 /\ steps[Len(steps)] = "report")

\* C20: the deadline is armed, MAX_TOTAL_RUNTIME_SECONDS ahead, before any
\* step starts; no step is running at or past the deadline; a step in
\* which the deadline falls ends the process with status 1.
C20_DeadlineExits ==
    /\ [](/\ opc # "idle" => alarmAt # NONE
          /\ opc \notin {"idle", "exited"} => now < alarmAt
          /\ (opc = "exited" /\ now >= alarmAt) => exitStatus = 1)
    /\ [][/\ (opc = "idle" /\ opc' # "idle")
               => (alarmAt' = now + MAX_TOTAL_RUNTIME_SECONDS
                     /\ steps' = <<>>)
          /\ (opc \notin {"idle", "exited"} /\ alarmAt # NONE
                /\ now' >= alarmAt)
               => (opc' = "exited" /\ exitStatus' = 1)]_vars

\* the deadline fell in the sitemap step, after an article was written
C20_Witness ==
    /\ opc = "exited"
    /\ exitStatus = 1
    /\ now = alarmAt
    /\ blog = "article"
    /\ steps = <<"fetch", "generate", "sitemap">>

\* ------------------------------------------------------------------------
\* Properties of batch_generate
\* ------------------------------------------------------------------------
\* C21: when the topic call fails, or its text holds no JSON array, or the
\* bracketed text is not valid JSON, generate_weekly_topics returns an
\* empty list and batch_generate returns 0 without raising: it writes no
\* HTML file and leaves the queue index as it was
C21_MalformedTopicsGiveZero ==
    [][(RunOf("generate") /\ genLog'.resp # "array")
          => /\ genLog'.topics = <<>>
             /\ lastOp'.ret = 0
             /\ ~lastOp'.raised
             /\ genLog'.written = <<>>
             /\ queueFile' = queueFile]_vars

\* a bracketed text that is not valid JSON, though a topic is legible in
\* it, arrives while the index holds an earlier batch: the run returns 0
\* and the earlier batch is still there
C21_Witness ==
    /\ lastOp.op = "generate"
    /\ genLog.resp = "invalid"
    /\ lastOp.ret = 0
    /\ ~lastOp.raised
    /\ queueFile.kind = "ok"
    /\ Len(queueFile.entries) = 1


\* the topics among the first count whose body did not fail and has at
\* least BODY_MIN characters
GoodBodies(topics, count) ==
    Cardinality({i \in 1..Min(Len(topics), count) :
                    /\ topics[i].body # NONE
                    /\ topics[i].body >= BODY_MIN})

\* C22: a batch_generate run that returns gives the number of entries it
\* wrote to the queue index, which is the number of topics among the first
\* count whose body did not fail and has at least 500 characters; it wrote
\* one HTML file for each entry, every entry has published = false, and a
\* failed or short topic is skipped without ending the batch
C22_ReturnsEntriesWritten ==
    [][(RunOf("generate") /\ ~lastOp'.raised)
          => /\ lastOp'.ret = GoodBodies(genLog'.topics, genLog'.count)
             /\ Len(genLog'.written) = lastOp'.ret
             /\ IF genLog'.topics = <<>> THEN queueFile' = queueFile
                ELSE /\ queueFile'.kind = "ok"
                     /\ Len(queueFile'.entries) = lastOp'.ret
                     /\ \A i \in 1..Len(queueFile'.entries) :
                           /\ ~queueFile'.entries[i].published
                           /\ genLog'.written[i] = queueFile'.entries[i].file]_vars

\* a batch of two topics, the first with a body one character short: the
\* run goes on, writes the second and returns 1
C22_Witness ==
    /\ lastOp.op = "generate"
    /\ ~lastOp.raised
    /\ genLog.count = TOTAL_POSTS
    /\ Len(genLog.topics) = 2
    /\ genLog.topics[1].body = BODY_MIN - 1
    /\ genLog.topics[2].body = BODY_MIN
    /\ lastOp.ret = 1
    /\ queueFile.kind = "ok"
    /\ Len(queueFile.entries) = 1
    /\ genLog.written = <<queueFile.entries[1].file>>


\* ------------------------------------------------------------------------
\* Further properties of the scheduler loop
\* ------------------------------------------------------------------------
\* C23: whenever the heartbeat is due at its check, the loop calls it and
\* sets last_heartbeat to the clock after the call in that same step,
\* whether or not the health check failed inside; so the heartbeat is
\* called only when it never ran in this state or the recorded attempt is
\* at least 5 minutes old, and the recorded time is never in the future
C23_HeartbeatStampedWhateverOutcome ==
    /\ [](state.last_heartbeat # NONE => state.last_heartbeat <= now)
    /\ [][BranchOf("heartbeat") =>
            /\ hist'.invoked <=> IsDue(hist'.elapsed, HEARTBEAT_INTERVAL)
            /\ hist'.invoked =>
                  /\ state'.last_heartbeat = now'
                  /\ pc' = "sleep"
                  /\ \/ state.last_heartbeat = NONE
                     \/ now - state.last_heartbeat >= HEARTBEAT_INTERVAL
            /\ ~hist'.invoked =>
                  state'.last_heartbeat = state.last_heartbeat]_vars

\* a later heartbeat whose health check fails inside is stamped all the
\* same
C23_Witness ==
    /\ hist.task = "heartbeat"
    /\ hist.invoked
    /\ hist.swallowed
    /\ hist.elapsed >= HEARTBEAT_INTERVAL
    /\ hist.elapsed < INF
    /\ state.last_heartbeat = now


\* C24: after every call of a task in the loop, whether it returned or
\* raised, and before the next task is checked, the state file holds the
\* in-memory schedule state
C24_DiskEqualsMemory ==
    [][\A t \in TaskNames :
         (BranchOf(t) /\ hist'.invoked) => stateFile' = GoodFile(state')]_vars


\* ------------------------------------------------------------------------
\* Properties of interleaved runs on the queue index
\* ------------------------------------------------------------------------
\* the slugs of a list of entries, in order
SlugList(entries) == [i \in 1..Len(entries) |-> entries[i].slug]

\* a step that replaced the index
IndexWrittenBy(who) ==
    lastWrite'.tog # lastWrite.tog /\ lastWrite'.who = who

\* C25: a write of the queue index replaces it by what the writing run
\* holds in memory, whatever another run wrote since this run started: after
\* the publisher's write the index has the entries the publisher read, with
\* its flags, and nothing of a batch written in between; after the
\* generator's write it has the new batch, all unpublished, and no flag the
\* publisher set in between
C25_LastWriterWins ==
    [][/\ IndexWrittenBy("publish") =>
             /\ queueFile' = GoodQueue(pubMem.queue)
             /\ SlugList(queueFile'.entries) = SlugList(pubMem.base.entries)
       /\ IndexWrittenBy("generate") =>
             /\ queueFile' = GoodQueue(genMem.entries)
             /\ \A i \in 1..Len(queueFile'.entries) :
                   ~queueFile'.entries[i].published]_vars

\* the lost update: the publisher read the index, a batch with another
\* entry was written, and the publisher's write put its own copy back: the
\* new entry is gone from the index
C25_Witness ==
    /\ lastWrite.who = "publish"
    /\ lastWrite.before # lastWrite.base
    /\ lastWrite.before.kind = "ok"
    /\ queueFile.kind = "ok"
    /\ \E i \in 1..Len(lastWrite.before.entries) :
          \A j \in 1..Len(queueFile.entries) :
             queueFile.entries[j].slug # lastWrite.before.entries[i].slug
    /\ lastOp.op = "publish"
    /\ lastOp.ret >= 1

\* the reverse order: a batch was built, the publisher flagged an entry in
\* the index, and the generator's write put the entry back unpublished
C25_ReverseWitness ==
    /\ lastWrite.who = "generate"
    /\ lastWrite.before.kind = "ok"
    /\ queueFile.kind = "ok"
    /\ \E i \in 1..Len(lastWrite.before.entries) :
          /\ lastWrite.before.entries[i].published
          /\ lastWrite.before.entries[i].slug \in docs
          /\ \E j \in 1..Len(queueFile.entries) :
                /\ queueFile.entries[j].slug
                      = lastWrite.before.entries[i].slug
                /\ ~queueFile.entries[j].published
    /\ lastWrite.before # lastWrite.base


\* ------------------------------------------------------------------------
\* Properties of the writer agent
\* ------------------------------------------------------------------------
\* C26: over any sequence of generate_blog_post calls in one process the
\* counter and the number of API calls never exceed GEMINI_DAILY_CALL_LIMIT
\* (every API call is counted before it is made), and once the counter is
\* at the limit a further call contacts the API no more and gives no
\* article
C26_GeminiCallsCapped ==
    /\ [](/\ _gemini_call_count <= GEMINI_DAILY_CALL_LIMIT
          /\ contacts = _gemini_call_count)
    /\ [][_gemini_call_count = GEMINI_DAILY_CALL_LIMIT =>
            /\ contacts' = contacts
            /\ _gemini_call_count' = _gemini_call_count
            /\ blog' # "article"
            /\ tracker' = tracker]_vars

\* the limit is reached and a further generate_blog_post is turned down
\* at its first call: five API calls were made, no article comes back
C26_Witness ==
    /\ _gemini_call_count = GEMINI_DAILY_CALL_LIMIT
    /\ contacts = GEMINI_DAILY_CALL_LIMIT
    /\ refused = 1
    /\ blog = "empty"
    /\ tracker.api_calls["gemini"] + tracker.errors["gemini"]
          = GEMINI_DAILY_CALL_LIMIT


\* ------------------------------------------------------------------------
\* Further properties of the batch publisher
\* ------------------------------------------------------------------------
\* C27: after any publish_todays_posts run, one that an exception ended in
\* the middle of its loop included, every entry whose HTML the run copied
\* to the live directory has published = true in the queue index on disk
C27_CopiedArePublished ==
    [][RunOf("publish") =>
          \A k \in 1..Len(lastOp'.copied) :
             /\ queueFile'.kind = "ok"
             /\ \A i \in 1..Len(queueFile'.entries) :
                   queueFile'.entries[i].slug = lastOp'.copied[k]
                      => queueFile'.entries[i].published]_vars

\* an unpublished entry dated before today
Overdue(e, today) == e.pub_date < today /\ ~e.published


\* the slugs a run copied
CopiedSlugs(op) == {op.copied[k] : k \in 1..Len(op.copied)}

\* C28: the publisher selects by equality of dates: a run never copies an
\* unpublished entry dated before today and leaves it as it is in the
\* index it writes, and no step of any kind turns such an entry into a
\* published one: it stays unpublished for as long as it is in the index
C28_OverdueNeverPublished ==
    [][\A i \in Positions(queueFile) :
          Overdue(queueFile.entries[i], Today(now)) =>
             /\ RunOf("publish") =>
                   /\ queueFile.entries[i].slug \notin CopiedSlugs(lastOp')
                   /\ queueFile'.kind = "ok" =>
                         /\ Len(queueFile'.entries) = Len(queueFile.entries)
                         /\ queueFile'.entries[i] = queueFile.entries[i]
             /\ \A j \in Positions(queueFile') :
                   queueFile'.entries[j].slug = queueFile.entries[i].slug
                      => ~queueFile'.entries[j].published]_vars

\* the day after: the run publishes the entry dated today and passes over
\* yesterday's entry, which is still unpublished and not in the live
\* directory
C28_Witness ==
    /\ Today(now) = 1
    /\ lastOp.op = "publish"
    /\ lastOp.ret = 1
    /\ queueFile.kind = "ok"
    /\ \E i \in Positions(queueFile) :
          /\ Overdue(queueFile.entries[i], Today(now))
          /\ queueFile.entries[i].slug \notin docs
    /\ \E i \in Positions(queueFile) :
          /\ queueFile.entries[i].pub_date = Today(now)
          /\ queueFile.entries[i].published


\* ------------------------------------------------------------------------
\* Properties of the start of the scheduler
\* ------------------------------------------------------------------------
\* a task without a usable last-run timestamp
Unstamped(st, t) == st[LastKey(t)] = NONE \/ st[LastKey(t)] = BAD

\* C29: a state file that is absent, unreadable or not valid JSON gives the
\* empty state without raising; a task whose recorded timestamp is missing
\* or unparseable has infinite elapsed time at its check, is called there
\* and the loop goes on to the next branch; so at the end of a tick every
\* task still without a usable timestamp was called in that tick
C29_NoTimestampMeansDue ==
    /\ []((cycle = 0 /\ pc = "loop" /\ stateFile.kind # "ok")
             => state = EmptyState)
    /\ []((pc = "sleep" /\ cycle >= 1)
             => \A t \in TaskNames :
                   Unstamped(state, t) => t \in hist.attempted)
    /\ [][\A t \in TaskNames :
            (BranchOf(t) /\ Unstamped(state, t))
               => /\ hist'.elapsed = INF
                  /\ hist'.invoked
                  /\ pc' = Successor(t)]_vars

\* the first tick on a file whose social timestamp is unparseable: the
\* social task is called (and raises, which leaves the timestamp as it
\* was), after the SEO task without a timestamp was called
C29_Witness ==
    /\ cycle = 1
    /\ hist.task = "social"
    /\ hist.elapsed = INF
    /\ hist.invoked
    /\ hist.raised
    /\ state.last_social = BAD
    /\ "seo" \in hist.attempted
    /\ "content" \notin hist.attempted


\* ------------------------------------------------------------------------
\* Further properties of the one-shot orchestrator
\* ------------------------------------------------------------------------
\* C30: the local failure counter is 0 when the article step starts (a
\* failed fetch has left the process), so it is at most 1 where it is
\* compared with MAX_CONSECUTIVE_ERRORS and never reaches the limit of 3:
\* a run that leaves from the article step before the deadline has no
\* article, and a run that leaves from the fetch step has no keywords
C30_CounterAtMostOne ==
    /\ [](/\ consecutive_step_errors <= 1
          /\ consecutive_step_errors < MAX_CONSECUTIVE_ERRORS
          /\ opc = "generate" => consecutive_step_errors = 0)
    /\ [][/\ (opc = "generate" /\ opc' = "exited" /\ now' < alarmAt)
               => blog' # "article"
          /\ (opc = "fetch" /\ opc' = "exited" /\ now' < alarmAt)
               => keywords' # "some"]_vars

\* the article step raised at the file write, after its two Gemini calls:
\* the counter is 1 at the comparison and the run leaves because there is
\* no article
C30_Witness ==
    /\ opc = "exited"
    /\ exitStatus = 1
    /\ steps = <<"fetch", "generate">>
    /\ blog = "none"
    /\ consecutive_step_errors = 1
    /\ _gemini_call_count = 2
    /\ now < alarmAt


============================================================================
